---- MODULE Spec2Model ----
(***************************************************************************)
(* Model of src/main.py: the rolling-volatility pipeline                   *)
(* (fetch_and_analyze_crypto_price), the batch loop (fetch_data_and_plot), *)
(* the ranking (plot_data) and the Streamlit entry point (main).           *)
(*                                                                         *)
(* Floating-point values are modelled in fixed point: prices are small     *)
(* positive integers, returns and standard deviations are integers in      *)
(* percent.  A float is a record [def, v]; def = FALSE is NaN.             *)
(***************************************************************************)
EXTENDS Integers, Sequences, FiniteSets, TLC

VARIABLES
    cryptos,      \* st.session_state.cryptos
    included_cryptos, \* the value of the multiselect widget
    symbols,      \* the argument of the running/last fetch_data_and_plot call
    i,            \* number of symbols the for loop has processed
    result,       \* dict result of fetch_data_and_plot, in insertion order
    dfs,          \* dict dfs of fetch_data_and_plot, in insertion order
    errors,       \* the st.error messages on the page
    charts,       \* the charts on the page
    got,          \* what the provider answered for each symbol of this call
    raised,       \* an exception escaped fetch_data_and_plot
    earlier,      \* an earlier call in this session ended with a non-empty result
    pc,           \* position of the script: "idle", "loop", "done"
    pad,          \* pandas build: pct_change forward-fills missing closes
    kline_data,   \* pipeline run: response['result']['list']
    window_size,  \* pipeline run: the window_size argument
    df,           \* pipeline run: the returned DataFrame
    ppc           \* pipeline run: "start", "done"

vars == <<cryptos, included_cryptos, symbols, i, result, dfs, errors, charts, got, raised, earlier,
          pc, pad, kline_data, window_size, df, ppc>>

batchVars == <<cryptos, included_cryptos, symbols, i, result, dfs, errors, charts,
               got, raised, earlier, pc>>

-----------------------------------------------------------------------------
(* Bounds of the model *)

\* how many entries of top_20_cryptos the session starts with
NumTop == 2
\* longest kline list of a pipeline run
MaxLen == 4
\* largest candle timestamp of a pipeline run
MaxTs == 2

-----------------------------------------------------------------------------
(* Floats *)

NaN == [def |-> FALSE, v |-> 0]
Num(x) == [def |-> TRUE, v |-> x]
isna(x) == ~x.def

\* the close strings the provider sends; "x" does not parse
CloseStrings == {"1", "2", "x"}

\* pd.to_numeric(..., errors='coerce')
to_numeric(s) ==
    CASE s = "1" -> Num(1)
      [] s = "2" -> Num(2)
      [] OTHER -> NaN

-----------------------------------------------------------------------------
(* Sequences *)

Range(s) == {s[k] : k \in 1..Len(s)}

\* df.iloc[::-1]
Reverse(s) == [k \in 1..Len(s) |-> s[Len(s) - k + 1]]

RECURSIVE SumSeq(_)
SumSeq(s) == IF s = <<>> THEN 0 ELSE Head(s) + SumSeq(Tail(s))

RECURSIVE SqrtFrom(_, _)
SqrtFrom(x, k) == IF (k + 1) * (k + 1) > x THEN k ELSE SqrtFrom(x, k + 1)

\* floor of the square root
ISqrt(x) == SqrtFrom(x, 0)

-----------------------------------------------------------------------------
(* fetch_and_analyze_crypto_price *)

\* Series.ffill at position k
RECURSIVE FfillAt(_, _)
FfillAt(close, k) ==
    IF k = 0 THEN NaN
    ELSE IF close[k].def THEN close[k] ELSE FfillAt(close, k - 1)

\* df['Close'].pct_change(): in percent; fill_method is 'pad' or None
\* according to the pandas build
pct_change(close, padded) ==
    LET filled == [k \in 1..Len(close) |->
                      IF padded THEN FfillAt(close, k) ELSE close[k]]
    IN  [k \in 1..Len(close) |->
            IF k = 1 THEN NaN
            ELSE IF filled[k].def /\ filled[k - 1].def
                 THEN Num(((filled[k].v - filled[k - 1].v) * 100) \div filled[k - 1].v)
                 ELSE NaN]

\* sample standard deviation (ddof = 1) of a sequence of integers
SampleStd(obs) ==
    LET n == Len(obs)
        s1 == SumSeq(obs)
        s2 == SumSeq([k \in 1..n |-> obs[k] * obs[k]])
    IN  ISqrt((n * s2 - s1 * s1) \div (n * (n - 1)))

\* the observations of a window: its values that are not NaN
Observations(returns, lo, hi) ==
    SelectSeq([k \in 1..(hi - lo + 1) |-> returns[lo + k - 1]], LAMBDA x : x.def)

\* a mutated default: min_periods=1
MinPeriodsOne(window) == 1

\* Rolling.std min_periods: defaults to the window
MinPeriods(window) == window

\* df['Returns'].rolling(window=window).std()
rolling_std(returns, window) ==
    [k \in 1..Len(returns) |->
        LET lo == IF k - window + 1 < 1 THEN 1 ELSE k - window + 1
            obs == Observations(returns, lo, k)
        IN  IF Len(obs) >= MinPeriods(window) /\ Len(obs) > 1
            THEN Num(SampleStd([j \in 1..Len(obs) |-> obs[j].v]))
            ELSE NaN]

\* the order of the rows of the frame: df = df.iloc[::-1]
OrderRows(rows) == Reverse(rows)

\* lines 35-41: the DataFrame built from kline_data
BuildFrame(klines, window, padded) ==
    LET rows == OrderRows(klines)
        close == [k \in 1..Len(rows) |-> to_numeric(rows[k].Close)]
        returns == pct_change(close, padded)
        rolling == rolling_std(returns, window)
    IN  [k \in 1..Len(rows) |->
            [Timestamp |-> rows[k].Timestamp,
             Close |-> close[k],
             Returns |-> returns[k],
             Rolling_Std_4h |-> rolling[k]]]

-----------------------------------------------------------------------------
(* The provider's answers *)

\* window_size=8, the default fetch_data_and_plot leaves in place
DefaultWindow == 8

\* a provider answer: get_kline raised, or a response without result.list,
\* or a response with result.list
ExceptionResponse == [kind |-> "exception", list |-> <<>>]
NoListResponse == [kind |-> "nolist", list |-> <<>>]
ListResponse(klines) == [kind |-> "list", list |-> klines]

\* n candles, newest first, closes alternating by amp, the newest close
\* unparseable when bad
MakeCandles(n, amp, bad) ==
    [j \in 1..n |->
        LET k == n - j + 1
        IN  [Timestamp |-> k,
             Close |-> IF bad /\ j = 1 THEN "x"
                       ELSE IF amp = 1 /\ k % 2 = 0 THEN "2" ELSE "1"]]

Shapes ==
    { [n |-> 0, amp |-> 0, bad |-> FALSE],
      [n |-> DefaultWindow, amp |-> 1, bad |-> FALSE],
      [n |-> DefaultWindow + 1, amp |-> 0, bad |-> FALSE],
      [n |-> DefaultWindow + 1, amp |-> 1, bad |-> FALSE],
      [n |-> DefaultWindow + 1, amp |-> 1, bad |-> TRUE] }

Responses ==
    {ExceptionResponse, NoListResponse}
    \cup {ListResponse(MakeCandles(s.n, s.amp, s.bad)) : s \in Shapes}

\* BuildFrame on the answers of a batch, tabulated once (it is a pure function)
BatchFrames ==
    [r \in Responses |-> [p \in BOOLEAN |-> BuildFrame(r.list, DefaultWindow, p)]]

\* the frame of a response that has result.list
Frame(response, window, padded) ==
    IF window = DefaultWindow /\ response \in DOMAIN BatchFrames
    THEN BatchFrames[response][padded]
    ELSE BuildFrame(response.list, window, padded)


-----------------------------------------------------------------------------
(* fetch_and_analyze_crypto_price: the function *)

NoError == [symbol |-> "", cause |-> ""]
Ok(frame) == [ok |-> TRUE, error |-> NoError, df |-> frame]
Raise(symbol, cause) ==
    [ok |-> FALSE, error |-> [symbol |-> symbol, cause |-> cause], df |-> <<>>]

\* lines 21-48.  Any exception of the try block, the ValueError of line 43
\* included, leaves as the ValueError of line 45.
fetch_and_analyze_crypto_price(symbol, response, window, padded) ==
    IF response.kind = "exception"
    THEN Raise(symbol, "get_kline raised")
    ELSE IF response.kind = "list"
         THEN Ok(Frame(response, window, padded))
         ELSE Raise(symbol, "No data returned from API.")

-----------------------------------------------------------------------------
(* A run of the pipeline alone, on any kline list *)

Candles == [Timestamp : 1..MaxTs, Close : CloseStrings]

RECURSIVE SeqsUpTo(_, _)
SeqsUpTo(S, n) ==
    IF n = 0 THEN {<<>>}
    ELSE LET shorter == SeqsUpTo(S, n - 1)
         IN  shorter \cup {Append(s, x) : s \in {t \in shorter : Len(t) = n - 1}, x \in S}

Windows == {2, 3}

Analyze ==
    /\ ppc = "start"
    /\ df' = fetch_and_analyze_crypto_price("ETHUSDT", ListResponse(kline_data),
                                            window_size, pad).df
    /\ ppc' = "done"
    /\ UNCHANGED <<kline_data, window_size, pad>>
    /\ UNCHANGED batchVars

-----------------------------------------------------------------------------
(* Python dicts: sequences of [key, val] in insertion order *)

Keys(d) == {d[k].key : k \in 1..Len(d)}

DictGet(d, key) == d[CHOOSE k \in 1..Len(d) : d[k].key = key].val

\* d[key] = val
DictSet(d, key, val) ==
    IF key \in Keys(d)
    THEN [k \in 1..Len(d) |-> IF d[k].key = key THEN [key |-> key, val |-> val] ELSE d[k]]
    ELSE Append(d, [key |-> key, val |-> val])

-----------------------------------------------------------------------------
(* fetch_data_and_plot *)

\* the state one pass of the for loop reads and writes
LoopState(res, frames, errs, exc) ==
    [result |-> res, dfs |-> frames, errors |-> errs, raised |-> exc]

\* st.error(f"Error fetching data for {symbol}: {e}")
Report(st, symbol, cause) ==
    [st EXCEPT !.errors = Append(@, [symbol |-> symbol, cause |-> cause])]

\* lines 76-79 on a mutated body: an empty frame counts as volatility 0
LoopBodyZeroOnEmpty(symbol, response, padded, st) ==
    LET r == fetch_and_analyze_crypto_price(symbol, response, DefaultWindow, padded)
    IN  IF ~r.ok THEN Report(st, symbol, r.error.cause)
        ELSE IF r.df = <<>>
             THEN [st EXCEPT !.result = DictSet(@, symbol, Num(0)),
                             !.dfs = DictSet(@, symbol, r.df)]
             ELSE LET last_rolling_std == r.df[Len(r.df)].Rolling_Std_4h
                  IN  IF ~isna(last_rolling_std)
                      THEN [st EXCEPT !.result = DictSet(@, symbol, last_rolling_std),
                                      !.dfs = DictSet(@, symbol, r.df)]
                      ELSE st

\* a mutated body: no pd.isna test before the two stores
LoopBodyNoFilter(symbol, response, padded, st) ==
    LET r == fetch_and_analyze_crypto_price(symbol, response, DefaultWindow, padded)
    IN  IF ~r.ok THEN Report(st, symbol, r.error.cause)
        ELSE IF r.df = <<>>
             THEN Report(st, symbol, "single positional indexer is out-of-bounds")
             ELSE [st EXCEPT !.result = DictSet(@, symbol, r.df[Len(r.df)].Rolling_Std_4h),
                             !.dfs = DictSet(@, symbol, r.df)]

\* a mutated body: no try/except around the fetch
LoopBodyNoCatch(symbol, response, padded, st) ==
    LET r == fetch_and_analyze_crypto_price(symbol, response, DefaultWindow, padded)
    IN  IF ~r.ok \/ r.df = <<>> THEN [st EXCEPT !.raised = TRUE]
        ELSE LET last_rolling_std == r.df[Len(r.df)].Rolling_Std_4h
             IN  IF ~isna(last_rolling_std)
                 THEN [st EXCEPT !.result = DictSet(@, symbol, last_rolling_std),
                                 !.dfs = DictSet(@, symbol, r.df)]
                 ELSE st

\* lines 74-81: one pass of the for loop.  iloc[-1] of an empty column raises
\* IndexError, which the except clause reports like a fetch failure.
LoopBody(symbol, response, padded, st) ==
    LET r == fetch_and_analyze_crypto_price(symbol, response, DefaultWindow, padded)
    IN  IF ~r.ok THEN Report(st, symbol, r.error.cause)
        ELSE IF r.df = <<>>
             THEN Report(st, symbol, "single positional indexer is out-of-bounds")
             ELSE LET last_rolling_std == r.df[Len(r.df)].Rolling_Std_4h
                  IN  IF ~isna(last_rolling_std)
                      THEN [st EXCEPT !.result = DictSet(@, symbol, last_rolling_std),
                                      !.dfs = DictSet(@, symbol, r.df)]
                      ELSE st

-----------------------------------------------------------------------------
(* plot_data, plot_rolling_std_vs_time *)

MaxOf(S) == CHOOSE x \in S : \A y \in S : y <= x
MinOf(S) == CHOOSE x \in S : \A y \in S : x <= y

\* float division: 0.0 / 0.0 is NaN, no exception; otherwise the quotient num/den
FloatDiv(a, b) ==
    IF b = 0 THEN [def |-> FALSE, num |-> 0, den |-> 1]
    ELSE [def |-> TRUE, num |-> a, den |-> b]

\* sort_values(by='Rolling_Std_4h', ascending=False) with the default
\* kind='quicksort': descending, the order of equal values is not specified
sort_values(rows) ==
    LET n == Len(rows)
        perms == {p \in Permutations(1..n) :
                     \A a, b \in 1..n : a < b => rows[p[a]].val.v >= rows[p[b]].val.v}
    IN  {[k \in 1..n |-> rows[p[k]]] : p \in perms}

\* lines 90-94: the frames plot_data can hand to px.bar
plot_data(data) ==
    LET vals == {data[k].val.v : k \in 1..Len(data)}
        max_std == MaxOf(vals)
        min_std == MinOf(vals)
    IN  {[k \in 1..Len(sorted) |->
            [Symbol |-> sorted[k].key,
             Rolling_Std_4h |-> sorted[k].val.v,
             Color |-> FloatDiv(sorted[k].val.v - min_std, max_std - min_std)]]
         : sorted \in sort_values(data)}

\* lines 104-107: one line chart per entry of dfs
plot_rolling_std_vs_time(frames) == [k \in 1..Len(frames) |-> frames[k].key]

NoCharts == [rendered |-> FALSE, bar |-> <<>>, lines |-> <<>>]

-----------------------------------------------------------------------------
(* main *)

Top20 ==
    <<"ETHUSDT", "MNTUSDT", "SOLUSDT", "GALAUSDT", "XRPUSDT", "APEXUSDT",
      "DOGEUSDT", "PEPEUSDT", "WLDUSDT", "FLOKIUSDT", "MATICUSDT", "AGIUSDT",
      "BNBUSDT", "AGIXUSDT", "FETUSDT", "NEARUSDT", "BONKUSDT", "PYTHUSDT",
      "MAVIAUSDT">>

top_20_cryptos == SubSeq(Top20, 1, NumTop)

\* what the user can have typed into the text input
TextInputs == {"", "BTCUSDT"}

\* a rerun of the script that does not reach fetch_data_and_plot: the page
\* is drawn anew, without messages or charts
EmptyPage ==
    /\ pc' = "idle"
    /\ symbols' = <<>>
    /\ i' = 0
    /\ result' = <<>>
    /\ dfs' = <<>>
    /\ errors' = <<>>
    /\ charts' = NoCharts
    /\ got' = <<>>
    /\ raised' = FALSE
    /\ earlier' = (earlier \/ (pc = "done" /\ result # <<>>))

\* lines 58-61: 'Add Cryptocurrency' clicked.  With new options the
\* multiselect (line 63) is a new widget and shows its default, the whole list.
AddCryptocurrency ==
    /\ pc \in {"idle", "done"}
    /\ \E new_crypto \in TextInputs :
          IF new_crypto # "" /\ new_crypto \notin Range(cryptos)
          THEN /\ cryptos' = Append(cryptos, new_crypto)
               /\ included_cryptos' = cryptos'
          ELSE UNCHANGED <<cryptos, included_cryptos>>
    /\ EmptyPage
    /\ UNCHANGED <<pad, kline_data, window_size, df, ppc>>

\* line 63: the user adds an option to the multiselect; it goes last
Select ==
    /\ pc \in {"idle", "done"}
    /\ \E option \in Range(cryptos) \ Range(included_cryptos) :
          included_cryptos' = Append(included_cryptos, option)
    /\ EmptyPage
    /\ UNCHANGED <<cryptos, pad, kline_data, window_size, df, ppc>>

\* line 63: the user removes an option from the multiselect
Deselect ==
    /\ pc \in {"idle", "done"}
    /\ \E option \in Range(included_cryptos) :
          included_cryptos' = SelectSeq(included_cryptos, LAMBDA x : x # option)
    /\ EmptyPage
    /\ UNCHANGED <<cryptos, pad, kline_data, window_size, df, ppc>>

\* a mutated start: result and dfs live on from the call before
ReloadKeep ==
    /\ pc \in {"idle", "done"}
    /\ symbols' = included_cryptos
    /\ i' = 0
    /\ errors' = <<>>
    /\ charts' = NoCharts
    /\ got' = <<>>
    /\ raised' = FALSE
    /\ earlier' = (earlier \/ (pc = "done" /\ result # <<>>))
    /\ pc' = "loop"
    /\ UNCHANGED <<cryptos, included_cryptos, result, dfs, pad, kline_data, window_size, df, ppc>>

\* lines 63-66 and 71-72: 'Reload Data' clicked, fetch_data_and_plot starts
Reload ==
    /\ pc \in {"idle", "done"}
    /\ symbols' = included_cryptos
    /\ i' = 0
    /\ result' = <<>>
    /\ dfs' = <<>>
    /\ errors' = <<>>
    /\ charts' = NoCharts
    /\ got' = <<>>
    /\ raised' = FALSE
    /\ earlier' = (earlier \/ (pc = "done" /\ result # <<>>))
    /\ pc' = "loop"
    /\ UNCHANGED <<cryptos, included_cryptos, pad, kline_data, window_size, df, ppc>>

\* lines 73-81: the for loop takes the next symbol
ProcessSymbol ==
    /\ pc = "loop"
    /\ i < Len(symbols)
    /\ \E response \in Responses :
          LET symbol == symbols[i + 1]
              st == LoopBody(symbol, response, pad,
                             LoopState(result, dfs, errors, raised))
          IN  /\ result' = st.result
              /\ dfs' = st.dfs
              /\ errors' = st.errors
              /\ raised' = st.raised
              /\ got' = (symbol :> response) @@ got
              /\ pc' = IF st.raised THEN "done" ELSE "loop"
    /\ i' = i + 1
    /\ UNCHANGED <<cryptos, included_cryptos, symbols, charts, earlier, pad, kline_data, window_size, df, ppc>>

\* a mutated end: the charts are drawn whatever result holds
FinishAlwaysPlot ==
    /\ pc = "loop"
    /\ i = Len(symbols)
    /\ charts' = [rendered |-> TRUE, bar |-> <<>>, lines |-> plot_rolling_std_vs_time(dfs)]
    /\ pc' = "done"
    /\ UNCHANGED <<cryptos, included_cryptos, symbols, i, result, dfs, errors, got, raised, earlier,
                   pad, kline_data, window_size, df, ppc>>

\* lines 83-87: after the loop
Finish ==
    /\ pc = "loop"
    /\ i = Len(symbols)
    /\ IF result # <<>>
       THEN /\ \E df_plot \in plot_data(result) :
                  charts' = [rendered |-> TRUE, bar |-> df_plot,
                             lines |-> plot_rolling_std_vs_time(dfs)]
            /\ errors' = errors
       ELSE /\ charts' = NoCharts
            /\ errors' = Append(errors, [symbol |-> "", cause |-> "No data available to display."])
    /\ pc' = "done"
    /\ UNCHANGED <<cryptos, included_cryptos, symbols, i, result, dfs, got, raised, earlier,
                   pad, kline_data, window_size, df, ppc>>

-----------------------------------------------------------------------------
(* Specifications *)

Init ==
    /\ cryptos = top_20_cryptos
    /\ included_cryptos = top_20_cryptos
    /\ symbols = <<>>
    /\ i = 0
    /\ result = <<>>
    /\ dfs = <<>>
    /\ errors = <<>>
    /\ charts = NoCharts
    /\ got = <<>>
    /\ raised = FALSE
    /\ earlier = FALSE
    /\ pc = "idle"
    /\ pad \in BOOLEAN
    /\ kline_data = <<>>
    /\ window_size = DefaultWindow
    /\ df = <<>>
    /\ ppc = "off"

Next == AddCryptocurrency \/ Select \/ Deselect \/ Reload \/ ProcessSymbol \/ Finish

Spec == Init /\ [][Next]_vars

InitPipe ==
    /\ cryptos = top_20_cryptos
    /\ included_cryptos = top_20_cryptos
    /\ symbols = <<>>
    /\ i = 0
    /\ result = <<>>
    /\ dfs = <<>>
    /\ errors = <<>>
    /\ charts = NoCharts
    /\ got = <<>>
    /\ raised = FALSE
    /\ earlier = FALSE
    /\ pc = "off"
    /\ pad \in BOOLEAN
    /\ kline_data \in SeqsUpTo(Candles, MaxLen)
    /\ window_size \in Windows
    /\ df = <<>>
    /\ ppc = "start"

NextPipe == Analyze

SpecPipe == InitPipe /\ [][NextPipe]_vars

-----------------------------------------------------------------------------
(* Properties *)

\* the provider failed for the symbol: get_kline raised, or the response is malformed
FetchFails(response) == response.kind \in {"exception", "nolist"}

\* the last entry of the symbol's rolling-volatility series; NaN when the
\* series has no entry
LastVol(response) ==
    LET frame == Frame(response, DefaultWindow, pad)
    IN  IF frame = <<>> THEN NaN ELSE frame[Len(frame)].Rolling_Std_4h

\* an st.error message names the symbol
Reported(symbol) == \E k \in 1..Len(errors) : errors[k].symbol = symbol

\* the symbol processed alone, with the same answer of the provider
Alone(symbol) ==
    LoopBody(symbol, got[symbol], pad, LoopState(<<>>, <<>>, <<>>, FALSE))

Position(seq, x) == CHOOSE k \in 1..Len(seq) : seq[k] = x

\* C1: failure isolation.  When fetch_data_and_plot has ended, no exception
\* has escaped it, every symbol of the list was processed, every symbol whose
\* fetch failed has an error message, and every other symbol has exactly the
\* result, frame and message it has when it is processed alone.
C1_FailureIsolation ==
    pc = "done" =>
        /\ ~raised
        /\ \A s \in Range(symbols) :
              /\ s \in DOMAIN got
              /\ FetchFails(got[s]) => (Reported(s) /\ s \notin Keys(result))
              /\ ~FetchFails(got[s]) =>
                    /\ s \in Keys(result) <=> s \in Keys(Alone(s).result)
                    /\ s \in Keys(result) =>
                          /\ DictGet(result, s) = DictGet(Alone(s).result, s)
                          /\ DictGet(dfs, s) = DictGet(Alone(s).dfs, s)
                    /\ Reported(s) <=> Alone(s).errors # <<>>

\* C1 witness: a list of three symbols, the second one's fetch raised, the
\* first and the third are in the result
C1_Witness ==
    /\ pc = "done"
    /\ Len(symbols) = 3
    /\ got[symbols[2]].kind = "exception"
    /\ symbols[1] \in Keys(result)
    /\ symbols[3] \in Keys(result)
    /\ Reported(symbols[2])

\* C2: filtering invariant.  When fetch_data_and_plot has ended, the keys of
\* result are exactly the symbols whose fetch returned a frame whose last
\* rolling-volatility entry is defined, and dfs has the same keys.
C2_FilteringInvariant ==
    pc = "done" =>
        /\ Keys(result) = {s \in Range(symbols) :
                              got[s].kind = "list" /\ ~isna(LastVol(got[s]))}
        /\ Keys(dfs) = Keys(result)

\* C2 witness: one symbol is kept and one with a frame but an undefined last
\* entry is left out
C2_Witness ==
    /\ pc = "done"
    /\ \E s, t \in Range(symbols) :
          /\ s \in Keys(result)
          /\ got[t].kind = "list" /\ got[t].list # <<>> /\ isna(LastVol(got[t]))
          /\ t \notin Keys(result)

\* the response has no result.list, or an empty one
NoData(response) ==
    response.kind = "nolist" \/ (response.kind = "list" /\ response.list = <<>>)

\* C3: a symbol whose response lacks result.list or has an empty result.list
\* is never a key of result, and an error message names it.
C3_NoDataIsProviderError ==
    \A s \in DOMAIN got :
        NoData(got[s]) => (s \notin Keys(result) /\ Reported(s))

\* C3 witness: a batch has ended with one response without result.list and
\* one with an empty result.list
C3_Witness ==
    /\ pc = "done"
    /\ \E s, t \in Range(symbols) :
          /\ got[s].kind = "nolist"
          /\ got[t].kind = "list" /\ got[t].list = <<>>
          /\ Reported(s) /\ Reported(t)

\* C4: when fetch_data_and_plot has ended, every symbol of the list that is
\* not in the result has a message naming it: a symbol whose fetch succeeded
\* but whose last volatility entry is missing is reported like the others.
C4_EveryExclusionReported ==
    pc = "done" =>
        \A s \in Range(symbols) : s \notin Keys(result) => Reported(s)

\* C5: the frame's index is strictly ascending by timestamp, whatever the
\* order and the repetitions of the kline list.
C5_NormalizedAscending ==
    ppc = "done" =>
        \A a, b \in 1..Len(df) : a < b => df[a].Timestamp < df[b].Timestamp

\* C6: the bar chart's rows are ordered by value descending, and rows of
\* equal value are in the order of their symbols in the input list.
C6_RankingStable ==
    (pc = "done" /\ charts.rendered) =>
        \A a, b \in 1..Len(charts.bar) :
            a < b =>
                \/ charts.bar[a].Rolling_Std_4h > charts.bar[b].Rolling_Std_4h
                \/ /\ charts.bar[a].Rolling_Std_4h = charts.bar[b].Rolling_Std_4h
                   /\ Position(symbols, charts.bar[a].Symbol)
                        < Position(symbols, charts.bar[b].Symbol)

\* C7: when all values of the chart are equal every Color is 1/2; otherwise
\* Color is (v - min) / (max - min), between 0 and 1.
C7_DegenerateRangeMidpoint ==
    (pc = "done" /\ charts.rendered) =>
        LET vals == {charts.bar[k].Rolling_Std_4h : k \in 1..Len(charts.bar)}
            hi == MaxOf(vals)
            lo == MinOf(vals)
        IN  \A k \in 1..Len(charts.bar) :
                LET c == charts.bar[k].Color
                    v == charts.bar[k].Rolling_Std_4h
                IN  /\ c.def
                    /\ hi = lo => 2 * c.num = c.den
                    /\ hi # lo => /\ c.num * (hi - lo) = (v - lo) * c.den
                                  /\ 0 <= c.num /\ c.num <= c.den

\* C8: the rolling standard deviation at row k is defined exactly when the
\* window is complete (k >= window_size, rows counted from 1) and each of the
\* window_size returns ending at k is defined.
C8_RollingDefinedness ==
    ppc = "done" =>
        \A k \in 1..Len(df) :
            ~isna(df[k].Rolling_Std_4h) <=>
                /\ k >= window_size
                /\ \A j \in (k - window_size + 1)..k : ~isna(df[j].Returns)

\* C8 witness: a frame with a defined entry and, past the first window, an
\* entry that a missing return leaves undefined
C8_Witness ==
    /\ ppc = "done"
    /\ \E k \in 1..Len(df) : ~isna(df[k].Rolling_Std_4h)
    /\ \E k \in 1..Len(df) :
          /\ k > window_size
          /\ isna(df[k].Rolling_Std_4h)
          /\ \E j \in (k - window_size + 1)..k : isna(df[j].Returns)

\* C9: statelessness.  When a call of fetch_data_and_plot has ended, every
\* entry of result and of dfs belongs to a symbol of this call's list and
\* holds what this call computed from this call's answer of the provider.
C9_Stateless ==
    pc = "done" =>
        /\ \A k \in 1..Len(result) :
              /\ result[k].key \in Range(symbols)
              /\ got[result[k].key].kind = "list"
              /\ result[k].val = LastVol(got[result[k].key])
        /\ \A k \in 1..Len(dfs) :
              /\ dfs[k].key \in Range(symbols)
              /\ got[dfs[k].key].kind = "list"
              /\ dfs[k].val = Frame(got[dfs[k].key], DefaultWindow, pad)

\* C9 witness: a call that follows one with a non-empty result has ended
\* with a non-empty list and an empty result
C9_Witness ==
    /\ pc = "done"
    /\ earlier
    /\ symbols # <<>>
    /\ result = <<>>

\* C10: a call that ends with an empty result raised nothing, and the charts
\* are drawn exactly when result is not empty; an empty list gives an empty
\* result.
C10_EmptyBatchValid ==
    pc = "done" =>
        /\ ~raised
        /\ charts.rendered <=> result # <<>>
        /\ symbols = <<>> => result = <<>>

\* C10 witness: a call on two or more symbols, one failed and one filtered
\* out, has ended with an empty result and no chart
C10_Witness ==
    /\ pc = "done"
    /\ result = <<>>
    /\ ~charts.rendered
    /\ \E s, t \in Range(symbols) :
          /\ FetchFails(got[s])
          /\ got[t].kind = "list" /\ got[t].list # <<>>

====
